---- MODULE Spec2Model ----
(***************************************************************************)
(* Interactive dose-response fitting: the model registry, the parameter    *)
(* state hook (useModelState), the evaluation engine (curve, preds, rss)   *)
(* of the two builds of the application, src/src/App.jsx ("App") and       *)
(* src/unnamed/part_000 ("Part").                                          *)
(*                                                                         *)
(* Numbers.  A JavaScript Number is modelled in fixed point, in            *)
(* thousandths: the integer n stands for n/1000, so that every number of   *)
(* the registry (LOG_OFFSET = 0.001, the ED50 step 0.001, the dose grid    *)
(* 0.01) is represented exactly.  Products and quotients round towards     *)
(* minus infinity at that resolution.  A value is a record                 *)
(* [t |-> "num", v |-> n], NaN or Undefined, so that the reads of a        *)
(* missing property and the arithmetic on them behave as in JavaScript.    *)
(***************************************************************************)
EXTENDS Integers, Sequences, FiniteSets, TLC

VARIABLES
    build,          \* which file is running: "App" or "Part"
    modelKey,       \* App(): const [modelKey, setModelKey] = useState(...)
    state,          \* App.jsx useModelState: const [state, setState]
    stateByModel,   \* part_000 useModelState: const [stateByModel, ...]
    lastOp,         \* history: the handler that ran last and its arguments
    written,        \* history: (model, parameter) -> value last passed to update
    resetSeen,      \* history: reset has been called
    obs, pred,      \* the arguments of a direct call rss(obs, pred)
    rssOut,         \* its result
    prevPred,       \* the predictions of the previous call
    prevRss,        \* the result of the previous call
    pc              \* position of the direct caller of rss

vars == <<build, modelKey, state, stateByModel, lastOp, written, resetSeen,
          obs, pred, rssOut, prevPred, prevRss, pc>>

appVars == <<build, modelKey, state, stateByModel, lastOp, written, resetSeen>>
rssVars == <<obs, pred, rssOut, prevPred, prevRss, pc>>

-----------------------------------------------------------------------------
(* JavaScript values *)

Num(n) == [t |-> "num", v |-> n]
NaN == [t |-> "nan", v |-> 0]
Undefined == [t |-> "undef", v |-> 0]

IsNum(x) == x.t = "num"

\* Fixed-point product and quotient (floor), split so that no intermediate
\* result leaves 32 bits.
FMul(a, b) == (a \div 1000) * b + ((a % 1000) * b) \div 1000
FDiv(a, b) == (a \div b) * 1000 + ((a % b) * 1000) \div b

\* The arithmetic operators: ToNumber(undefined) is NaN, and NaN propagates.
Add(x, y) == IF IsNum(x) /\ IsNum(y) THEN Num(x.v + y.v) ELSE NaN
Sub(x, y) == IF IsNum(x) /\ IsNum(y) THEN Num(x.v - y.v) ELSE NaN
Mul(x, y) == IF IsNum(x) /\ IsNum(y) THEN Num(FMul(x.v, y.v)) ELSE NaN
\* the quotient, taken by the callers only under the guard den > 0
Div(x, y) == IF IsNum(x) /\ IsNum(y) /\ y.v > 0 THEN Num(FDiv(x.v, y.v)) ELSE NaN
\* x > 0: false when x is NaN
GtZero(x) == IsNum(x) /\ x.v > 0

MathMin(x, y) == IF IsNum(x) /\ IsNum(y) THEN Num(IF x.v < y.v THEN x.v ELSE y.v) ELSE NaN
MathMax(x, y) == IF IsNum(x) /\ IsNum(y) THEN Num(IF x.v > y.v THEN x.v ELSE y.v) ELSE NaN

RECURSIVE ISqrt(_, _, _)
\* the largest r in lo..hi with r*r <= n
ISqrt(n, lo, hi) ==
    IF lo >= hi THEN lo
    ELSE LET mid == (lo + hi + 1) \div 2
         IN  IF mid * mid <= n THEN ISqrt(n, mid, hi) ELSE ISqrt(n, lo, mid - 1)

\* square root of x/1000, in thousandths
FSqrt(x) == ISqrt(x * 1000, 0, 3000)

RECURSIVE IPow(_, _)
IPow(x, n) == IF n = 0 THEN 1000 ELSE FMul(x, IPow(x, n - 1))

\* Math.pow(x, h) for x >= 0 and the exponents the model uses, the multiples
\* of 0.5: x^(n + 1/2) = x^n * sqrt(x).
MathPow(x, h) ==
    IF ~(IsNum(x) /\ IsNum(h)) THEN NaN
    ELSE IF h.v % 1000 = 0 THEN Num(IPow(x.v, h.v \div 1000))
    ELSE Num(FMul(IPow(x.v, h.v \div 1000), FSqrt(x.v)))

\* Math.log10 at the arguments x + LOG_OFFSET that occur (the sampled and the
\* observed doses), rounded to the thousandth; Math.log10(0.001) = -3.
Log10Table ==
    [a \in {1, 501, 1001, 2001, 3001, 3201, 5001} |->
        CASE a = 1 -> -3000
          [] a = 501 -> -300
          [] a = 1001 -> 0
          [] a = 2001 -> 301
          [] a = 3001 -> 477
          [] a = 3201 -> 505
          [] a = 5001 -> 699]

MathLog10(x) == IF IsNum(x) THEN Num(Log10Table[x.v]) ELSE NaN

\* p.k: the value of property k of the object p, undefined when p has none
Get(p, k) == IF k \in DOMAIN p THEN Num(p[k]) ELSE Undefined

\* { ...s, [k]: val }
Spread(s, k, val) == [x \in DOMAIN s \cup {k} |-> IF x = k THEN val ELSE s[x]]

-----------------------------------------------------------------------------
(* The model registry *)

LOG_OFFSET == 1

ModelKeys == {"Linear", "Log-linear", "Emax"}

PSpec(lo, hi, st, dv) == [min |-> lo, max |-> hi, step |-> st, defaultValue |-> dv]

\* src/src/App.jsx: models[m].params
AppParams(m) ==
    CASE m = "Linear" ->
            [k \in {"a", "b"} |->
                IF k = "a" THEN PSpec(0, 120000, 500, 100000)
                ELSE PSpec(-200000, 50000, 500, -30000)]
      [] m = "Log-linear" ->
            [k \in {"a", "b"} |->
                IF k = "a" THEN PSpec(0, 120000, 500, 100000)
                ELSE PSpec(-200000, 50000, 500, -60000)]
      [] m = "Emax" ->
            [k \in {"E0", "Emax", "ED50", "h"} |->
                CASE k = "E0" -> PSpec(50000, 120000, 500, 100000)
                  [] k = "Emax" -> PSpec(0, 100000, 500, 60000)
                  [] k = "ED50" -> PSpec(1, 3000, 1, 500)
                  [] k = "h" -> PSpec(200, 4000, 50, 1000)]

\* src/unnamed/part_000: models[m].params
PartParams(m) ==
    CASE m = "Linear" -> [k \in {"b"} |-> PSpec(-200000, 50000, 500, -20000)]
      [] m = "Log-linear" -> [k \in {"b"} |-> PSpec(-200000, 50000, 500, -50000)]
      [] m = "Emax" ->
            [k \in {"Emax", "ED50", "h"} |->
                CASE k = "Emax" -> PSpec(0, 100000, 500, 70000)
                  [] k = "ED50" -> PSpec(1, 3000, 1, 1500)
                  [] k = "h" -> PSpec(200, 4000, 50, 1500)]

\* src/src/App.jsx: models[m].fn(x, p); x is a number, p the parameter object
AppFn(m, x, p) ==
    CASE m = "Linear" -> Add(Get(p, "a"), Mul(Get(p, "b"), Num(x)))
      [] m = "Log-linear" ->
            Add(Get(p, "a"), Mul(Get(p, "b"), MathLog10(Num(x + LOG_OFFSET))))
      [] m = "Emax" ->
            LET num == Mul(Get(p, "Emax"), MathPow(Num(x), Get(p, "h")))
                den == Add(MathPow(Get(p, "ED50"), Get(p, "h")),
                           MathPow(Num(x), Get(p, "h")))
                inh == IF GtZero(den) THEN Div(num, den) ELSE Num(0)
            IN  Sub(Get(p, "E0"), inh)

\* src/unnamed/part_000: models[m].fn(x, p)
PartFn(m, x, p) ==
    CASE m = "Linear" -> Add(Num(100000), Mul(Get(p, "b"), Num(x)))
      [] m = "Log-linear" ->
            Add(Num(100000),
                Mul(Get(p, "b"),
                    Sub(MathLog10(Num(x + LOG_OFFSET)), MathLog10(Num(LOG_OFFSET)))))
      [] m = "Emax" ->
            LET num == Mul(Get(p, "Emax"), MathPow(Num(x), Get(p, "h")))
                den == Add(MathPow(Get(p, "ED50"), Get(p, "h")),
                           MathPow(Num(x), Get(p, "h")))
                inh == IF GtZero(den) THEN Div(num, den) ELSE Num(0)
            IN  Sub(Num(100000), inh)

Schema(b, m) == IF b = "App" THEN AppParams(m) ELSE PartParams(m)
Fn(b, m, x, p) == IF b = "App" THEN AppFn(m, x, p) ELSE PartFn(m, x, p)

\* useModelState: defaults = Object.fromEntries(Object.entries(cfg.params)
\*                    .map(([k, v]) => [k, v.defaultValue]))
Defaults(b, m) == [k \in DOMAIN Schema(b, m) |-> Schema(b, m)[k].defaultValue]

-----------------------------------------------------------------------------
(* The reference dataset *)

DOSES == <<500, 1000, 2000, 3000>>

\* const SYNTH = { E0: 100, Emax: 80, ED50: ..., h: 1 }
SYNTH(b) ==
    [k \in {"E0", "Emax", "ED50", "h"} |->
        CASE k = "E0" -> 100000
          [] k = "Emax" -> 80000
          [] k = "ED50" -> IF b = "App" THEN 10 ELSE 1000
          [] k = "h" -> 1000]

emaxPred(d, p) ==
    LET num == Mul(Get(p, "Emax"), MathPow(Num(d), Get(p, "h")))
        den == Add(MathPow(Get(p, "ED50"), Get(p, "h")), MathPow(Num(d), Get(p, "h")))
        drop == IF GtZero(den) THEN Div(num, den) ELSE Num(0)
    IN  Sub(Get(p, "E0"), drop)

\* const demoData = DOSES.map((x) => ({ x, y: emaxPred(x, SYNTH) }))
demoData(b) == [i \in 1..Len(DOSES) |-> [x |-> DOSES[i], y |-> emaxPred(DOSES[i], SYNTH(b))]]

-----------------------------------------------------------------------------
(* The evaluation engine *)

\* pred[i] of a JavaScript array (1-based here): undefined past its end
At(arr, i) == IF i \in 1..Len(arr) THEN arr[i] ELSE Undefined

\* v ?? d
Coalesce(v, d) == IF v.t = "undef" THEN d ELSE v

RECURSIVE RssAcc(_, _, _)
\* the accumulator of obs.reduce(...) after the first n elements
RssAcc(o, p, n) ==
    IF n = 0 THEN Num(0)
    ELSE Add(RssAcc(o, p, n - 1),
             MathPow(Sub(o[n], Coalesce(At(p, n), Num(0))), Num(2000)))

\* rss with the missing predictions skipped instead of read as 0
rssSkipMissing(o, p) == RssAcc(o, p, IF Len(p) < Len(o) THEN Len(p) ELSE Len(o))

RECURSIVE ResidualAcc(_, _, _)
ResidualAcc(o, p, n) ==
    IF n = 0 THEN Num(0)
    ELSE Add(ResidualAcc(o, p, n - 1), Sub(o[n], Coalesce(At(p, n), Num(0))))

\* rss with the residuals summed without being squared
rssNoSquare(o, p) == ResidualAcc(o, p, Len(o))

\* function rss(obs, pred)
rss(o, p) == RssAcc(o, p, Len(o))

\* function clampResponse(y)
clampResponse(y) == MathMax(Num(0), MathMin(Num(120000), y))

\* Array.from({ length: N }, (_, i) => i * 0.01): N = 321 (App), 501 (Part)
CurveLength(b) == IF b = "App" THEN 321 ELSE 501

\* The indices of the curve the model evaluates: the first, the last and the
\* ones at the doses 0.5, 1, 2, 3.
SampleIdx(b) == {0, 50, 100, 200, 300, CurveLength(b) - 1}

\* the parameter object useModelState(m) returns as params
ParamsOf(m) == IF build = "App" THEN state ELSE stateByModel[m]

Params == ParamsOf(modelKey)

\* const curve = useMemo(...), at the indices of SampleIdx
Curve ==
    [i \in SampleIdx(build) |->
        [x |-> i * 10, y |-> clampResponse(Fn(build, modelKey, i * 10, Params))]]

\* preds with the display clamp applied to them
PredsClamped ==
    [i \in 1..Len(DOSES) |->
        clampResponse(Fn(build, modelKey, demoData(build)[i].x, Params))]

\* const preds = useMemo(() => demoData.map((d) => models[modelKey].fn(d.x, params)))
Preds == [i \in 1..Len(DOSES) |-> Fn(build, modelKey, demoData(build)[i].x, Params)]

\* const rssVal = useMemo(() => rss(demoData.map((d) => d.y), preds))
RssVal == rss([i \in 1..Len(DOSES) |-> demoData(build)[i].y], Preds)

-----------------------------------------------------------------------------
(* The parameter state hook and the handlers of App() *)

\* The positions a slider is moved to: for each parameter name the two ends
\* of its range (for h, whose exponent MathPow takes in halves, 0.5 and the
\* maximum 4); the range input only delivers values within [min, max].
SliderValues(k) ==
    CASE k = "a" -> {0, 120000}
      [] k = "b" -> {-200000, 50000}
      [] k = "E0" -> {50000, 120000}
      [] k = "Emax" -> {0, 100000}
      [] k = "ED50" -> {1, 3000}
      [] k = "h" -> {500, 4000}

NoOp == [op |-> "init", model |-> "", k |-> "", v |-> 0, changed |-> FALSE]

Init ==
    /\ build \in {"App", "Part"}
    /\ modelKey = IF build = "App" THEN "Emax" ELSE "Linear"
    /\ state = IF build = "App" THEN Defaults("App", "Emax") ELSE << >>
    /\ stateByModel = IF build = "Part"
                      THEN [m \in ModelKeys |-> Defaults("Part", m)]
                      ELSE << >>
    /\ lastOp = NoOp
    /\ written = << >>
    /\ resetSeen = FALSE
    /\ obs = << >> /\ pred = << >> /\ rssOut = Num(0)
    /\ prevPred = << >> /\ prevRss = Num(0) /\ pc = "idle"

\* history of update: the value last written to (model, parameter); dropped
\* once reset has been used
Record(m, k, v) ==
    IF resetSeen THEN written
    ELSE [x \in DOMAIN written \cup {<<m, k>>} |-> IF x = <<m, k>> THEN v ELSE written[x]]

\* App.jsx: <select value={modelKey} onChange={(e) => setModelKey(e.target.value)}>
AppSelect ==
    \E m \in ModelKeys :
        /\ build = "App"
        /\ m # modelKey
        /\ modelKey' = m
        /\ lastOp' = [op |-> "select", model |-> m, k |-> "", v |-> 0, changed |-> FALSE]
        /\ UNCHANGED <<build, state, stateByModel, written, resetSeen>>
        /\ UNCHANGED rssVars

\* part_000: <select value={modelKey} onChange={(e) => setModelKey(e.target.value)}>
PartSelect ==
    \E m \in ModelKeys :
        /\ build = "Part"
        /\ m # modelKey
        /\ modelKey' = m
        /\ lastOp' = [op |-> "select", model |-> m, k |-> "", v |-> 0, changed |-> FALSE]
        /\ UNCHANGED <<build, state, stateByModel, written, resetSeen>>
        /\ UNCHANGED rssVars

\* App.jsx: const update = (k, val) => setState((s) => ({ ...s, [k]: val }))
\* called by the slider of parameter k of cfg.params
AppUpdate ==
    \E k \in DOMAIN AppParams(modelKey) : \E val \in SliderValues(k) :
        /\ build = "App"
        /\ AppParams(modelKey)[k].min <= val /\ val <= AppParams(modelKey)[k].max
        /\ state' = Spread(state, k, val)
        /\ lastOp' = [op |-> "update", model |-> modelKey, k |-> k, v |-> val,
                      changed |-> state' # state]
        /\ written' = Record(modelKey, k, val)
        /\ UNCHANGED <<build, modelKey, stateByModel, resetSeen>>
        /\ UNCHANGED rssVars

\* reset merging the defaults into the state instead of replacing it
AppResetMerge ==
    /\ build = "App"
    /\ state' = [x \in DOMAIN state \cup DOMAIN Defaults("App", modelKey) |->
                    IF x \in DOMAIN Defaults("App", modelKey)
                    THEN Defaults("App", modelKey)[x] ELSE state[x]]
    /\ lastOp' = [op |-> "reset", model |-> modelKey, k |-> "", v |-> 0,
                  changed |-> state' # state]
    /\ written' = << >>
    /\ resetSeen' = TRUE
    /\ UNCHANGED <<build, modelKey, stateByModel>>
    /\ UNCHANGED rssVars

\* App.jsx: const reset = () => setState(defaults)
AppReset ==
    /\ build = "App"
    /\ state' = Defaults("App", modelKey)
    /\ lastOp' = [op |-> "reset", model |-> modelKey, k |-> "", v |-> 0,
                  changed |-> state' # state]
    /\ written' = << >>
    /\ resetSeen' = TRUE
    /\ UNCHANGED <<build, modelKey, stateByModel>>
    /\ UNCHANGED rssVars

\* part_000: const update = (k, val) => setStateByModel((s) =>
\*               ({ ...s, [modelKey]: { ...s[modelKey], [k]: val } }))
PartUpdate ==
    \E k \in DOMAIN PartParams(modelKey) : \E val \in SliderValues(k) :
        /\ build = "Part"
        /\ PartParams(modelKey)[k].min <= val /\ val <= PartParams(modelKey)[k].max
        /\ stateByModel' = Spread(stateByModel, modelKey,
                                  Spread(stateByModel[modelKey], k, val))
        /\ lastOp' = [op |-> "update", model |-> modelKey, k |-> k, v |-> val,
                      changed |-> stateByModel' # stateByModel]
        /\ written' = Record(modelKey, k, val)
        /\ UNCHANGED <<build, modelKey, state, resetSeen>>
        /\ UNCHANGED rssVars

\* part_000: const reset = () => setStateByModel((s) => ({ ...s, [modelKey]: defaults }))
PartReset ==
    /\ build = "Part"
    /\ stateByModel' = Spread(stateByModel, modelKey, Defaults("Part", modelKey))
    /\ lastOp' = [op |-> "reset", model |-> modelKey, k |-> "", v |-> 0,
                  changed |-> stateByModel' # stateByModel]
    /\ written' = << >>
    /\ resetSeen' = TRUE
    /\ UNCHANGED <<build, modelKey, state>>
    /\ UNCHANGED rssVars

Next == AppSelect \/ AppUpdate \/ AppReset \/ PartSelect \/ PartUpdate \/ PartReset

Spec == Init /\ [][Next]_vars

-----------------------------------------------------------------------------
(* A direct caller of rss(obs, pred) *)

MaxLen == 3

\* the numbers 0, 0.5 and 2
Vals == {Num(0), Num(500), Num(2000)}

SeqsUpTo(S, n) == UNION {[1..k -> S] : k \in 0..n}

InitRss ==
    /\ build = "App"
    /\ modelKey = "Emax"
    /\ state = Defaults("App", "Emax")
    /\ stateByModel = << >>
    /\ lastOp = NoOp
    /\ written = << >>
    /\ resetSeen = FALSE
    /\ obs \in SeqsUpTo(Vals, MaxLen)
    /\ pred \in SeqsUpTo(Vals, Len(obs))
    /\ rssOut = Num(0)
    /\ prevPred = << >> /\ prevRss = Num(0) /\ pc = "ready"

\* rssOut = rss(obs, pred)
CallRss ==
    /\ pc = "ready"
    /\ rssOut' = rss(obs, pred)
    /\ pc' = "done"
    /\ UNCHANGED <<obs, pred, prevPred, prevRss>>
    /\ UNCHANGED appVars

\* one prediction is replaced and rss is called again on the same observations
MovePrediction ==
    \E j \in 1..Len(pred) : \E val \in Vals :
        /\ pc = "done"
        /\ Len(pred) = Len(obs)
        /\ val # pred[j]
        /\ pred' = [pred EXCEPT ![j] = val]
        /\ prevPred' = pred
        /\ prevRss' = rssOut
        /\ rssOut' = rss(obs, pred')
        /\ pc' = "moved"
        /\ UNCHANGED obs
        /\ UNCHANGED appVars

NextRss == CallRss \/ MovePrediction

SpecRss == InitRss /\ [][NextRss]_vars

-----------------------------------------------------------------------------
(* Properties of the parameter state hook *)

\* the registry default of parameter k of variant m
DefaultOf(m, k) == Schema(build, m)[k].defaultValue

\* the value last written by update to (m, k), or the registry default
LastWritten(m, k) ==
    IF <<m, k>> \in DOMAIN written THEN written[<<m, k>>] ELSE DefaultOf(m, k)

\* C1: as long as reset has not been used, the parameters handed to the
\* evaluator and the sliders while variant V is active hold, for every
\* parameter k of V's schema, the value last written to (V, k) by update, or
\* V's registry default when (V, k) was never updated.
C1_SwitchPreservesState ==
    ~resetSeen =>
        \A k \in DOMAIN Schema(build, modelKey) :
            Get(Params, k) = Num(LastWritten(modelKey, k))

C3_ResetFrame ==
    [][lastOp'.op = "reset" =>
        \A w \in ModelKeys \ {modelKey} :
            \A k \in DOMAIN Schema(build, w) :
                Get(ParamsOf(w)', k) = Get(ParamsOf(w), k)]_vars

\* C4: right after reset, the parameter state of the active variant is
\* exactly the registry's defaults: every parameter of its schema at its
\* default value, and no other key.
C4_ResetRestoresDefaults ==
    lastOp.op = "reset" => Params = Defaults(build, modelKey)

\* C4 witness: a reset that changed the parameter state has run.
C4_Witness ==
    /\ lastOp.op = "reset"
    /\ lastOp.changed
    /\ Params = Defaults(build, modelKey)

\* C10: the active model key is a registered variant and the parameter state
\* of the active variant holds exactly the parameter names of its schema.
C10_SchemaStateAgree ==
    /\ modelKey \in ModelKeys
    /\ DOMAIN Params = DOMAIN Schema(build, modelKey)

-----------------------------------------------------------------------------
(* Properties of the evaluation engine *)

\* C5: every point of the sampled curve of the active variant has a numeric
\* response y with 0 <= y <= 120.
C5_CurvePlottable ==
    \A i \in DOMAIN Curve :
        /\ IsNum(Curve[i].y)
        /\ 0 <= Curve[i].y.v
        /\ Curve[i].y.v <= 120000

RECURSIVE RawSquares(_)
\* the sum over the first n observed points of (observed_i - fn(dose_i, params))^2
RawSquares(n) ==
    IF n = 0 THEN Num(0)
    ELSE LET d == demoData(build)[n]
             r == Sub(d.y, Fn(build, modelKey, d.x, Params))
         IN  Add(RawSquares(n - 1), Mul(r, r))

\* the RSS the clamped predictions would give
ClampedRss ==
    rss([i \in 1..Len(DOSES) |-> demoData(build)[i].y],
        [i \in 1..Len(DOSES) |-> clampResponse(Preds[i])])

\* C6: the displayed RSS is the sum over the observed points of
\* (observed_i - fn(dose_i, params))^2 with fn the raw evaluator of the active
\* variant: the predictions are not clamped.
C6_RssUsesRawPredictions == RssVal = RawSquares(Len(DOSES))

\* C6 witness: a raw prediction at an observed dose lies outside [0, 120] and
\* the displayed RSS differs from the one clamped predictions would give.
C6_Witness ==
    /\ \E i \in 1..Len(DOSES) :
            IsNum(Preds[i]) /\ (Preds[i].v < 0 \/ Preds[i].v > 120000)
    /\ IsNum(RssVal)
    /\ RssVal # ClampedRss

-----------------------------------------------------------------------------
(* Properties of rss *)

RECURSIVE SquaresTo(_, _, _)
\* the sum over i <= m of (o[i] - p[i])^2
SquaresTo(o, p, m) ==
    IF m = 0 THEN 0
    ELSE SquaresTo(o, p, m - 1) + FMul(o[m].v - p[m].v, o[m].v - p[m].v)

RECURSIVE TailSquares(_, _)
\* the sum over i > m of o[i]^2
TailSquares(o, m) ==
    IF m >= Len(o) THEN 0
    ELSE FMul(o[m + 1].v, o[m + 1].v) + TailSquares(o, m + 1)

\* C7 as stated: with fewer predictions than observations, rss is the sum of
\* the squared residuals over the indices that have a prediction, the others
\* adding nothing.
C7_MissingAddNothing ==
    (pc = "done" /\ Len(pred) < Len(obs)) =>
        rssOut = Num(SquaresTo(obs, pred, Len(pred)))

\* C7 amended: with fewer predictions than observations, rss does not fail
\* and a missing prediction counts as the prediction 0: index i past the
\* predictions adds observed[i]^2.
C7_MissingCountAsZero ==
    (pc = "done" /\ Len(pred) < Len(obs)) =>
        rssOut = Num(SquaresTo(obs, pred, Len(pred)) + TailSquares(obs, Len(pred)))

\* C7 witness: rss has run with a prediction present, one missing, and a
\* non-zero observation at a missing index.
C7_Witness ==
    /\ pc = "done"
    /\ 0 < Len(pred) /\ Len(pred) < Len(obs)
    /\ \E i \in (Len(pred) + 1)..Len(obs) : obs[i].v # 0
    /\ IsNum(rssOut)

Abs(n) == IF n < 0 THEN -n ELSE n

\* the indices at which the two calls' predictions differ
Moved == {j \in 1..Len(pred) : pred[j] # prevPred[j]}

\* C9: on equal-length sequences rss is >= 0, and when exactly one
\* prediction has moved further from its observation, the others held fixed,
\* rss is strictly greater than before.
C9_NonNegativeMonotone ==
    /\ (pc \in {"done", "moved"} /\ Len(pred) = Len(obs)) =>
            (IsNum(rssOut) /\ rssOut.v >= 0)
    /\ pc = "moved" =>
            \A j \in Moved :
                (Moved = {j} /\
                 Abs(obs[j].v - pred[j].v) > Abs(obs[j].v - prevPred[j].v))
                    => rssOut.v > prevRss.v

\* C9 witness: a single prediction has moved further from a non-zero
\* observation, next to another residual that is not zero.
C9_Witness ==
    /\ pc = "moved"
    /\ Len(obs) >= 2
    /\ \E j \in Moved :
            /\ Moved = {j}
            /\ Abs(obs[j].v - pred[j].v) > Abs(obs[j].v - prevPred[j].v)
            /\ \E i \in 1..Len(obs) : i # j /\ obs[i] # pred[i]
    /\ rssOut.v > prevRss.v

====
